---- MODULE Spec2Model ----
(***************************************************************************)
(* Eventbrite AI scraper page (src/app.py): the "Search Events" handler,   *)
(* the mock backend simulate_gemini_api_call, and the JSON wire document   *)
(* that crosses between them.                                              *)
(*                                                                         *)
(* Python values are tagged records [k, v]:                                *)
(*   None, bool, int, str, list (a sequence), dict (a sequence of          *)
(*   <<key, value>> pairs in insertion order, keys unique).                *)
(* A JSON text is the sequence of its lexical tokens: punctuation,         *)
(* string, number, literal (null/true/false) and "word" (characters that   *)
(* start no JSON token, such as the text  not json ).  Whitespace and the  *)
(* escaping inside a string token are below this level of detail.          *)
(*                                                                         *)
(* Spec is the script as written: the backend is the mock.  BackendSpec    *)
(* runs the same handler on a backend that may return any of a set of      *)
(* texts, valid or not.  RoundTripSpec applies json.dumps and json.loads   *)
(* to collections of event records.  The user acts only between script     *)
(* runs; `table` records what is handed to st.dataframe, not what          *)
(* Streamlit draws from it.                                                *)
(***************************************************************************)
EXTENDS Integers, Sequences, FiniteSets, TLC

VARIABLES
    user_input,     \* value of the st.text_input widget
    pc,             \* position of the script run: Idle, Running, Success, Failed, Crashed
    out,            \* messages on the page, in order: [kind, text]
    table,          \* <<>> or <<data>>: the argument of st.dataframe on the page
    calls,          \* calls of the backend made by the current script run
    json_response,  \* <<>> while unassigned, <<text>> once the backend returned
    log,            \* history: one entry per click of "Search Events"
    rt_pc,          \* round trip: start, dumped, loaded
    rt_events,      \* round trip: the EventCollection serialised
    rt_text,        \* round trip: the wire text
    rt_back         \* round trip: <<>> or <<what the handler reads back>>

vars == <<user_input, pc, out, table, calls, json_response, log,
          rt_pc, rt_events, rt_text, rt_back>>

page_vars == <<user_input, pc, out, table, calls, json_response, log>>
rt_vars == <<rt_pc, rt_events, rt_text, rt_back>>

\* ---------------------------------------------------------------- bounds

\* clicks of "Search Events" followed in one behaviour of the program
MaxRuns == 3
\* clicks followed in one behaviour when the backend may return any text
MaxBackendRuns == 2
\* records in a collection of the round trip
MaxEvents == 3

\* ---------------------------------------------------------- Python values

PyNone == [k |-> "None", v |-> <<>>]
PyBool(b) == [k |-> "bool", v |-> b]
PyInt(n) == [k |-> "int", v |-> n]
PyStr(s) == [k |-> "str", v |-> s]
PyList(s) == [k |-> "list", v |-> s]
PyDict(pairs) == [k |-> "dict", v |-> pairs]

\* the test `events_list is not None` in place of bool(events_list)
TruthyNoneOnly(x) == x.k # "None"

\* bool(x), as `not events_list` evaluates it
Truthy(x) ==
    CASE x.k = "None" -> FALSE
      [] x.k = "bool" -> x.v
      [] x.k = "int" -> x.v # 0
      [] x.k = "str" -> x.v # ""
      [] x.k = "list" -> Len(x.v) > 0
      [] x.k = "dict" -> Len(x.v) > 0

HasKey(d, key) == \E i \in 1..Len(d.v) : d.v[i][1] = key

\* dict.get(key, default)
DictGet(d, key, default) ==
    IF HasKey(d, key)
    THEN d.v[CHOOSE i \in 1..Len(d.v) : d.v[i][1] = key][2]
    ELSE default

\* d[key] = value: an existing key keeps its position
DictSet(pairs, key, value) ==
    IF \E i \in 1..Len(pairs) : pairs[i][1] = key
    THEN [i \in 1..Len(pairs) |->
            IF pairs[i][1] = key THEN <<key, value>> ELSE pairs[i]]
    ELSE Append(pairs, <<key, value>>)

\* ------------------------------------------------------------ JSON tokens

Punct(c) == [k |-> "punct", v |-> c]
StrTok(s) == [k |-> "string", v |-> s]
NumTok(n) == [k |-> "number", v |-> n]
LitTok(s) == [k |-> "literal", v |-> s]
WordTok(s) == [k |-> "word", v |-> s]

IsPunct(tok, c) == tok.k = "punct" /\ tok.v = c

\* ------------------------------------------------------------- json.dumps

RECURSIVE Dumps(_)
RECURSIVE DumpItems(_)
RECURSIVE DumpPairs(_)

DumpItems(items) ==
    IF items = <<>> THEN <<>>
    ELSE Dumps(items[1])
         \o (IF Len(items) > 1 THEN <<Punct(",")>> \o DumpItems(Tail(items)) ELSE <<>>)

DumpPairs(pairs) ==
    IF pairs = <<>> THEN <<>>
    ELSE <<StrTok(pairs[1][1]), Punct(":")>> \o Dumps(pairs[1][2])
         \o (IF Len(pairs) > 1 THEN <<Punct(",")>> \o DumpPairs(Tail(pairs)) ELSE <<>>)

Dumps(x) ==
    CASE x.k = "None" -> <<LitTok("null")>>
      [] x.k = "bool" -> <<LitTok(IF x.v THEN "true" ELSE "false")>>
      [] x.k = "int" -> <<NumTok(x.v)>>
      [] x.k = "str" -> <<StrTok(x.v)>>
      [] x.k = "list" -> <<Punct("[")>> \o DumpItems(x.v) \o <<Punct("]")>>
      [] x.k = "dict" -> <<Punct("{")>> \o DumpPairs(x.v) \o <<Punct("}")>>

json_dumps(x) == Dumps(x)

\* ------------------------------------------------------------- json.loads

ParseOk(val, next) == [ok |-> TRUE, val |-> val, next |-> next]
ParseFail == [ok |-> FALSE, val |-> PyNone, next |-> 0]

RECURSIVE ParseValue(_, _)
RECURSIVE ParseItems(_, _, _)
RECURSIVE ParsePairs(_, _, _)

\* A value parsed is bound through a one-element set, so that it is
\* computed once however often the rest of the parse reads it.

\* a parser that builds the array back to front
ItemsAfterPrepend(t, r, acc) ==
    IF ~r.ok \/ r.next > Len(t) THEN ParseFail
    ELSE IF IsPunct(t[r.next], ",") THEN ParseItems(t, r.next + 1, <<r.val>> \o acc)
    ELSE IF IsPunct(t[r.next], "]") THEN ParseOk(PyList(<<r.val>> \o acc), r.next + 1)
    ELSE ParseFail

\* after the element r of an array: "," and more elements, or "]"
ItemsAfter(t, r, acc) ==
    IF ~r.ok \/ r.next > Len(t) THEN ParseFail
    ELSE IF IsPunct(t[r.next], ",") THEN ParseItems(t, r.next + 1, Append(acc, r.val))
    ELSE IF IsPunct(t[r.next], "]") THEN ParseOk(PyList(Append(acc, r.val)), r.next + 1)
    ELSE ParseFail

\* the elements of an array, from token i, up to and including "]"
ParseItems(t, i, acc) ==
    CHOOSE res \in {ItemsAfter(t, r, a) : r \in {ParseValue(t, i)}, a \in {acc}} : TRUE

\* after the member key: r of an object: "," and more members, or "}"
PairsAfter(t, key, r, acc) ==
    IF ~r.ok \/ r.next > Len(t) THEN ParseFail
    ELSE IF IsPunct(t[r.next], ",")
    THEN ParsePairs(t, r.next + 1, DictSet(acc, key, r.val))
    ELSE IF IsPunct(t[r.next], "}")
    THEN ParseOk(PyDict(DictSet(acc, key, r.val)), r.next + 1)
    ELSE ParseFail

\* the members of an object, from token i, up to and including "}"
ParsePairs(t, i, acc) ==
    IF i + 1 > Len(t) \/ t[i].k # "string" \/ ~IsPunct(t[i + 1], ":") THEN ParseFail
    ELSE CHOOSE res \in {PairsAfter(t, t[i].v, r, a) :
                             r \in {ParseValue(t, i + 2)}, a \in {acc}} : TRUE

ParseValue(t, i) ==
    IF i > Len(t) THEN ParseFail
    ELSE LET tok == t[i]
         IN  CASE tok.k = "string" -> ParseOk(PyStr(tok.v), i + 1)
               [] tok.k = "number" -> ParseOk(PyInt(tok.v), i + 1)
               [] tok.k = "literal" ->
                    ParseOk(CASE tok.v = "null" -> PyNone
                              [] tok.v = "true" -> PyBool(TRUE)
                              [] tok.v = "false" -> PyBool(FALSE), i + 1)
               [] IsPunct(tok, "[") ->
                    IF i + 1 <= Len(t) /\ IsPunct(t[i + 1], "]")
                    THEN ParseOk(PyList(<<>>), i + 2)
                    ELSE ParseItems(t, i + 1, <<>>)
               [] IsPunct(tok, "{") ->
                    IF i + 1 <= Len(t) /\ IsPunct(t[i + 1], "}")
                    THEN ParseOk(PyDict(<<>>), i + 2)
                    ELSE ParsePairs(t, i + 1, <<>>)
               [] OTHER -> ParseFail

\* [ok |-> TRUE, val |-> value], or ok = FALSE for json.JSONDecodeError
\* (no value, or text after the value)
json_loads(t) ==
    LET r == ParseValue(t, 1)
    IN  IF r.ok /\ r.next = Len(t) + 1
        THEN [ok |-> TRUE, val |-> r.val]
        ELSE [ok |-> FALSE, val |-> PyNone]

\* ------------------------------------------------------------ the backend

GEMINI_PROMPT ==
    "\nYou are a web scraping agent designed to extract structured information from Eventbrite.com. When given a search query, you will navigate the Eventbrite website and perform a search. For each event that matches the keywords 'biotech', 'agriculture tech', or 'tech', extract the following details: Event Title, Location, Date, Time, and Price. If the price is free, note it as such. After collecting the data for all relevant events, format the output as a JSON object, where each event is an element in a JSON array. If the webpage does not contain any of the specified keywords, return an empty JSON array.\n"

Event(title, location, date, time, price) ==
    PyDict(<< <<"Event Title", PyStr(title)>>,
              <<"Location", PyStr(location)>>,
              <<"Date", PyStr(date)>>,
              <<"Time", PyStr(time)>>,
              <<"Price", PyStr(price)>> >>)

MockEvents ==
    << Event("Cutting-Edge Biotech Innovations", "San Francisco, CA",
             "October 15, 2025", "9:00 AM - 5:00 PM", "Free"),
       Event("Future of Agriculture Tech Summit", "Virtual Event",
             "November 2, 2025", "10:00 AM - 2:00 PM (CST)", "$99.00"),
       Event("Local Tech Meetup & Networking", "New York, NY",
             "September 20, 2025", "7:00 PM - 9:00 PM", "Free"),
       Event("Next-Gen Tech Solutions Expo", "Austin, TX",
             "December 5-6, 2025", "9:00 AM - 6:00 PM", "$150.00 - $300.00") >>

\* the wire shape { "events": [...] }
WireShape(events) == PyDict(<< <<"events", PyList(events)>> >>)

mock_events_json == WireShape(MockEvents)

\* what simulate_gemini_api_call writes to the page before it returns
StubOutput(user_query, prompt) ==
    << [kind |-> "write", text |-> "Simulating a scrape for the query: '" \o user_query \o "'"],
       [kind |-> "write", text |-> "Using the following prompt for the AI agent:"],
       [kind |-> "code", text |-> prompt] >>

\* a backend that filters the records by the query
StubFiltered(user_query, prompt) ==
    json_dumps(WireShape(IF user_query = "biotech" THEN <<MockEvents[1]>> ELSE MockEvents))

\* a backend that keeps its records in a list shared by all calls, and
\* appends to it on every call
StubAccumulating(user_query, prompt) ==
    json_dumps(WireShape(IF log = <<>> THEN MockEvents ELSE MockEvents \o MockEvents))

\* the string simulate_gemini_api_call returns
simulate_gemini_api_call(user_query, prompt) == json_dumps(mock_events_json)

\* ---------------------------------------------------------------- the page

Queries == {"", "San Francisco tech events", "biotech"}

Msg(kind, text) == [kind |-> kind, text |-> text]

WarningMsg == Msg("warning", "Please enter a search query.")
InfoMsg(query) ==
    Msg("info", "No events found for '" \o query \o "' with the specified keywords.")
SuccessMsg == Msg("success", "Events found!")
ErrorMsg == Msg("error", "Failed to parse the response from the AI agent.")
\* an exception no except clause catches: Streamlit ends the run and shows it
ExceptionMsg(name) == Msg("exception", name)

\* The try/except of the handler on one response text: where the run ends,
\* the messages it emits and the data it hands to st.dataframe.
HandleResponse(query, response) ==
    LET events_data == json_loads(response)
    IN  IF ~events_data.ok
        THEN [pc |-> "Failed", out |-> <<ErrorMsg>>, table |-> <<>>]
        ELSE IF events_data.val.k # "dict"
        THEN [pc |-> "Crashed", out |-> <<ExceptionMsg("AttributeError")>>, table |-> <<>>]
        ELSE LET events_list == DictGet(events_data.val, "events", PyList(<<>>))
             IN  IF ~Truthy(events_list)
                 THEN [pc |-> "Success", out |-> <<InfoMsg(query)>>, table |-> <<>>]
                 ELSE [pc |-> "Success", out |-> <<SuccessMsg>>, table |-> <<events_list>>]

LogEntry(query, n, response, where, messages, data) ==
    [query |-> query, calls |-> n, response |-> response,
     pc |-> where, out |-> messages, table |-> data]

\* a page that keeps the table of the run before
StalePage == [out |-> <<>>, table |-> table, calls |-> 0, json_response |-> <<>>]

\* Every interaction runs the script again from its first line: what the
\* run before rendered is replaced, and its locals are gone.
FreshPage == [out |-> <<>>, table |-> <<>>, calls |-> 0, json_response |-> <<>>]

Init ==
    /\ user_input = ""
    /\ pc = "Idle"
    /\ out = <<>>
    /\ table = <<>>
    /\ calls = 0
    /\ json_response = <<>>
    /\ log = <<>>
    /\ rt_pc = "start"
    /\ rt_events = <<>>
    /\ rt_text = <<>>
    /\ rt_back = <<>>

\* The user edits the text input: the script reruns with the button False,
\* so the page shows the title and the widgets only.
TypeQuery(q) ==
    /\ pc = "Idle"
    /\ q # user_input
    /\ user_input' = q
    /\ out' = FreshPage.out
    /\ table' = FreshPage.table
    /\ calls' = FreshPage.calls
    /\ json_response' = FreshPage.json_response
    /\ UNCHANGED <<pc, log>>
    /\ UNCHANGED rt_vars

\* a click that sends an empty query on to the backend
ClickNoGuard(limit) ==
    /\ pc = "Idle"
    /\ Len(log) < limit
    /\ out' = FreshPage.out
    /\ table' = FreshPage.table
    /\ calls' = FreshPage.calls
    /\ json_response' = FreshPage.json_response
    /\ pc' = "Running"
    /\ UNCHANGED <<user_input, log>>
    /\ UNCHANGED rt_vars

\* The user clicks "Search Events": the script reruns with the button True.
\* `limit` bounds the clicks followed.
ClickWithin(limit) ==
    /\ pc = "Idle"
    /\ Len(log) < limit
    /\ table' = FreshPage.table
    /\ calls' = FreshPage.calls
    /\ json_response' = FreshPage.json_response
    /\ IF user_input = ""
       THEN /\ out' = FreshPage.out \o <<WarningMsg>>
            /\ pc' = "Idle"
            /\ log' = Append(log, LogEntry(user_input, calls', json_response',
                                           "Warned", out', table'))
       ELSE /\ out' = FreshPage.out
            /\ pc' = "Running"
            /\ log' = log
    /\ UNCHANGED user_input
    /\ UNCHANGED rt_vars

Click == ClickWithin(MaxRuns)

\* a handler that calls the backend a second time
HandleRetry(response, diagnostics) ==
    /\ pc = "Running"
    /\ \E h \in {HandleResponse(user_input, response)} :
           /\ calls' = calls + 2
           /\ json_response' = <<response>>
           /\ out' = out \o diagnostics \o diagnostics \o h.out
           /\ table' = h.table
           /\ pc' = h.pc
           /\ log' = Append(log, LogEntry(user_input, calls', json_response',
                                          pc', h.out, table'))
    /\ UNCHANGED user_input
    /\ UNCHANGED rt_vars

\* Inside the spinner: the delay, one call of the backend, which writes
\* `diagnostics` and returns `response`, then the try/except.  The entry of
\* the log keeps the messages of the try/except, not the diagnostics.
Handle(response, diagnostics) ==
    /\ pc = "Running"
    /\ \E h \in {HandleResponse(user_input, response)} :
           /\ calls' = calls + 1
           /\ json_response' = <<response>>
           /\ out' = out \o diagnostics \o h.out
           /\ table' = h.table
           /\ pc' = h.pc
           /\ log' = Append(log, LogEntry(user_input, calls', json_response',
                                          pc', h.out, table'))
    /\ UNCHANGED user_input
    /\ UNCHANGED rt_vars

\* the program as written: the backend is simulate_gemini_api_call
Search ==
    \E json_text \in {simulate_gemini_api_call(user_input, GEMINI_PROMPT)} :
        Handle(json_text, StubOutput(user_input, GEMINI_PROMPT))

\* the script run ends; the page keeps what the run rendered
Finish ==
    /\ pc \in {"Success", "Failed", "Crashed"}
    /\ pc' = "Idle"
    /\ UNCHANGED <<user_input, out, table, calls, json_response, log>>
    /\ UNCHANGED rt_vars

Next ==
    \/ \E q \in Queries : TypeQuery(q)
    \/ Click
    \/ Search
    \/ Finish

Spec == Init /\ [][Next]_vars

\* The handler is synchronous straight-line code: once the button is
\* clicked the run goes on to its end.
FairSpec == Spec /\ WF_vars(Search) /\ WF_vars(Finish)

\* ------------------------------------------- the handler on any response

StubText == simulate_gemini_api_call("San Francisco tech events", GEMINI_PROMPT)

\* texts that are not JSON
NotJson ==
    { <<WordTok("not"), WordTok("json")>>,
      <<>>,
      SubSeq(StubText, 1, Len(StubText) - 1),
      json_dumps(WireShape(<<>>)) \o <<Punct("}")>> }

\* JSON documents that are not objects
NotObject ==
    { json_dumps(PyList(<<>>)),
      json_dumps(PyStr("events")),
      json_dumps(PyInt(42)),
      json_dumps(PyNone) }

\* JSON objects with no "events" key
NoEventsKey ==
    { json_dumps(PyDict(<<>>)),
      json_dumps(PyDict(<< <<"results", PyList(<<MockEvents[1]>>)>> >>)) }

\* JSON objects whose "events" value is not a list
EventsNotList ==
    { json_dumps(PyDict(<< <<"events", PyStr("soon")>> >>)),
      json_dumps(PyDict(<< <<"events", MockEvents[1]>> >>)),
      json_dumps(PyDict(<< <<"events", PyInt(7)>> >>)),
      json_dumps(PyDict(<< <<"events", PyNone>> >>)) }

\* documents of the expected shape { "events": [EventRecord, ...] }
Shaped ==
    { StubText,
      json_dumps(WireShape(<<>>)) }

Responses == NotJson \cup NotObject \cup NoEventsKey \cup EventsNotList \cup Shaped

\* lines 78-97 with the backend of line 82 replaced by one that may return
\* any text
BackendSearch ==
    \E response \in Responses : Handle(response, <<>>)

BackendClick == ClickWithin(MaxBackendRuns)

BackendNext ==
    \/ \E q \in Queries : TypeQuery(q)
    \/ BackendClick
    \/ BackendSearch
    \/ Finish

BackendSpec == Init /\ [][BackendNext]_vars

\* ----------------------------------------------------------- round trip

Collections ==
    UNION { [1..n -> {MockEvents[i] : i \in 1..Len(MockEvents)}] : n \in 0..MaxEvents }

RoundTripInit ==
    /\ user_input = ""
    /\ pc = "Idle"
    /\ out = <<>>
    /\ table = <<>>
    /\ calls = 0
    /\ json_response = <<>>
    /\ log = <<>>
    /\ rt_pc = "start"
    /\ rt_events \in Collections
    /\ rt_text = <<>>
    /\ rt_back = <<>>

\* line 61: the backend serialises the collection in the wire shape
RtDumps ==
    /\ rt_pc = "start"
    /\ rt_text' = json_dumps(WireShape(rt_events))
    /\ rt_pc' = "dumped"
    /\ UNCHANGED <<rt_events, rt_back>>
    /\ UNCHANGED page_vars

\* lines 86-87: the handler parses the text and reads "events"
RtLoads ==
    /\ rt_pc = "dumped"
    /\ LET events_data == json_loads(rt_text)
       IN  IF events_data.ok /\ events_data.val.k = "dict"
           THEN /\ rt_back' = <<DictGet(events_data.val, "events", PyList(<<>>))>>
                /\ rt_pc' = "loaded"
           ELSE /\ rt_back' = <<>>
                /\ rt_pc' = "raised"
    /\ UNCHANGED <<rt_events, rt_text>>
    /\ UNCHANGED page_vars

RoundTripNext == RtDumps \/ RtLoads

RoundTripSpec == RoundTripInit /\ [][RoundTripNext]_vars

\* ================================================================ claims

\* ----------------------------------------------- how a response is shaped

\* d is what json_loads makes of a response text
Decodes(d) == d.ok
IsObject(d) == d.ok /\ d.val.k = "dict"
MissingEventsKey(d) == IsObject(d) /\ ~HasKey(d.val, "events")
EventsOf(d) == DictGet(d.val, "events", PyList(<<>>))

EventFields == {"Event Title", "Location", "Date", "Time", "Price"}

\* an object with exactly the five fields, each a string
IsEventRecord(x) ==
    /\ x.k = "dict"
    /\ {x.v[i][1] : i \in 1..Len(x.v)} = EventFields
    /\ \A i \in 1..Len(x.v) : x.v[i][2].k = "str"

\* the expected shape { "events": [EventRecord, ...] }
MatchesShape(d) ==
    /\ IsObject(d)
    /\ HasKey(d.val, "events")
    /\ EventsOf(d).k = "list"
    /\ \A i \in 1..Len(EventsOf(d).v) : IsEventRecord(EventsOf(d).v[i])

\* the entries of the log that are invocations of the backend
Invocations == {i \in DOMAIN log : log[i].query # ""}

EmptyOutcome(e) ==
    e.pc = "Success" /\ e.out = <<InfoMsg(e.query)>> /\ e.table = <<>>
FailedOutcome(e) ==
    e.pc = "Failed" /\ e.out = <<ErrorMsg>> /\ e.table = <<>>
FoundOutcome(e) ==
    e.pc = "Success" /\ e.out = <<SuccessMsg>> /\ Len(e.table) = 1

\* C1: a response that is not valid JSON, or is valid JSON without an
\* "events" key (documents that are not objects included), ends the run in
\* the 'failed to parse' error or in the empty-collection outcome, never in
\* an unhandled exception.
C1_MalformedNeverCrashes ==
    \A i \in Invocations :
        LET d == json_loads(log[i].response[1])
        IN  (~Decodes(d) \/ ~IsObject(d) \/ MissingEventsKey(d))
                => (FailedOutcome(log[i]) \/ EmptyOutcome(log[i]))

\* C2: a click with an empty query never calls the backend, renders no
\* table, parses nothing, and emits the warning exactly once.
C2_EmptyQueryWarnsOnce ==
    /\ \A i \in DOMAIN log :
          log[i].query = ""
              => /\ log[i].calls = 0
                 /\ log[i].response = <<>>
                 /\ log[i].table = <<>>
                 /\ log[i].out = <<WarningMsg>>
    /\ (pc # "Idle" => user_input # "")
    /\ (user_input = ""
            => calls = 0 /\ json_response = <<>> /\ table = <<>>
               /\ out \in {<<>>, <<WarningMsg>>})

C2_Witness ==
    /\ \E i \in DOMAIN log : log[i].query = ""
    /\ out = <<WarningMsg>>
    /\ calls = 0

\* C3: a response that cannot be decoded as JSON, or that does not match
\* the shape { "events": [EventRecord, ...] }, ends the run in Failed with
\* the 'failed to parse' error and never in 'Events found!' with a table.
\* Stated for the texts that are not JSON and for the objects that have an
\* "events" key: a document that is not an object is the case of C1, and an
\* object without the key counts as the empty collection.
C3_ShapeMismatchFails ==
    \A i \in Invocations :
        LET d == json_loads(log[i].response[1])
        IN  (~Decodes(d)
                \/ (IsObject(d) /\ ~MissingEventsKey(d) /\ ~MatchesShape(d)))
                => FailedOutcome(log[i])

\* C4: an invocation with a non-empty query goes Idle -> Running ->
\* (Success or Failed) -> Idle and no other way; the backend is called
\* exactly once per invocation; Running is always left, and so is
\* Success or Failed.
C4_Step ==
    /\ pc = "Idle" => pc' \in {"Idle", "Running"}
    /\ (pc = "Idle" /\ user_input # "" /\ user_input' = user_input) => pc' = "Running"
    /\ pc = "Running" => pc' \in {"Success", "Failed"} /\ calls' = 1
    /\ pc \in {"Success", "Failed"} => pc' = "Idle"
    /\ pc' = "Running" => pc = "Idle" /\ calls' = 0

C5_Titles ==
    << "Cutting-Edge Biotech Innovations", "Future of Agriculture Tech Summit",
       "Local Tech Meetup & Networking", "Next-Gen Tech Solutions Expo" >>

C5_StubGivesFourRecords ==
    /\ \A i \in Invocations :
          /\ FoundOutcome(log[i])
          /\ log[i].table[1].k = "list"
          /\ Len(log[i].table[1].v) = 4
          /\ \A n \in 1..4 :
                /\ IsEventRecord(log[i].table[1].v[n])
                /\ DictGet(log[i].table[1].v[n], "Event Title", PyNone) = PyStr(C5_Titles[n])
          /\ json_loads(log[i].response[1]).val = mock_events_json
    /\ pc = "Success"
          => /\ table = log[Len(log)].table
             /\ out = StubOutput(user_input, GEMINI_PROMPT) \o <<SuccessMsg>>

C5_Witness ==
    /\ pc = "Success"
    /\ user_input = "San Francisco tech events"
    /\ Len(table) = 1
    /\ Len(table[1].v) = 4

\* C6: invocations with the same query give the same response text and the
\* same collection, however many invocations, and with whatever queries,
\* came before.
C6_SameQuerySameResult ==
    \A i, j \in Invocations :
        log[i].query = log[j].query
            => /\ log[i].response = log[j].response
               /\ log[i].table = log[j].table
               /\ log[i].out = log[j].out

C6_Witness ==
    /\ Len(log) = 3
    /\ log[1].query # ""
    /\ log[2].query \notin {"", log[1].query}
    /\ log[3].query = log[1].query

\* two collections are equal: as many records, in the same order, each with
\* the same fields and the same value in every field
SameCollection(a, b) ==
    /\ Len(a) = Len(b)
    /\ \A n \in 1..Len(a) :
          /\ a[n].k = "dict" /\ b[n].k = "dict"
          /\ {a[n].v[i][1] : i \in 1..Len(a[n].v)} = {b[n].v[i][1] : i \in 1..Len(b[n].v)}
          /\ \A key \in EventFields :
                DictGet(a[n], key, PyNone) = DictGet(b[n], key, PyNone)

\* C7: a collection serialised to { "events": [...] } by json.dumps and read
\* back by json.loads and .get("events") is the collection it was.
C7_RoundTrip ==
    /\ rt_pc # "raised"
    /\ rt_pc = "loaded"
          => /\ Len(rt_back) = 1
             /\ rt_back[1].k = "list"
             /\ SameCollection(rt_back[1].v, rt_events)

C7_Witness ==
    /\ rt_pc = "loaded"
    /\ Len(rt_events) = 3
    /\ rt_events[1] # rt_events[2]
    /\ rt_events[2] # rt_events[3]

\* C8: an invocation shows exactly one of the three outcomes, decided by the
\* response: the info message alone for an empty collection, 'Events found!'
\* and the table for a non-empty one, the error alone for a malformed
\* document.
C8_OneOutcomePerResponse ==
    \A i \in Invocations :
        LET d == json_loads(log[i].response[1])
            e == log[i]
        IN  /\ EmptyOutcome(e) \/ FoundOutcome(e) \/ FailedOutcome(e)
            /\ (MatchesShape(d) /\ EventsOf(d).v = <<>>) => EmptyOutcome(e)
            /\ (MatchesShape(d) /\ EventsOf(d).v # <<>>)
                   => FoundOutcome(e) /\ e.table = <<EventsOf(d)>>
            /\ (~MatchesShape(d) /\ ~MissingEventsKey(d)) => FailedOutcome(e)

\* C9: nothing crosses from one run into the next: after a run that failed
\* or only warned no table is on the page, and two invocations with the
\* same query and the same response end the same way whatever ran before.
C9_NoStateCrosses ==
    /\ (pc = "Failed" \/ out = <<WarningMsg>>) => table = <<>>
    /\ \A i \in DOMAIN log : log[i].pc \in {"Failed", "Warned"} => log[i].table = <<>>
    /\ \A i, j \in DOMAIN log :
          (log[i].query = log[j].query /\ log[i].response = log[j].response)
              => log[i] = log[j]
    /\ pc \in {"Success", "Failed", "Crashed"}
          => /\ table = log[Len(log)].table
             /\ out = log[Len(log)].out

C9_Witness ==
    /\ Len(log) = 2
    /\ FoundOutcome(log[1])
    /\ log[2].pc \in {"Failed", "Warned"}
    /\ pc = "Idle"
    /\ table = <<>>

\* C10: an object with no "events" key and an object whose "events" is an
\* empty array both give the empty-collection outcome: the info message, no
\* table, no error.
C10_MissingKeyAsEmpty ==
    \A i \in Invocations :
        LET d == json_loads(log[i].response[1])
        IN  (MissingEventsKey(d) \/ (IsObject(d) /\ EventsOf(d) = PyList(<<>>)))
                => EmptyOutcome(log[i])

C10_Witness ==
    /\ Len(log) = 2
    /\ log[1].query # ""
    /\ log[1].query = log[2].query
    /\ MissingEventsKey(json_loads(log[1].response[1]))
    /\ log[2].response[1] = json_dumps(WireShape(<<>>))
    /\ log[1].out = log[2].out

====
